---- MODULE Spec2Model ----
(***************************************************************************)
(* Account API of first-go-api: the PostgresStore (db.go) behind the      *)
(* AccountStore interface, and the hand-written request dispatcher        *)
(* (api.go) wrapped by makeHTTPHandleFunc.                                 *)
(*                                                                         *)
(* Strings that the code takes apart (URL paths) are sequences of         *)
(* one-character strings; error messages are sequences of string pieces.  *)
(***************************************************************************)
EXTENDS Integers, Sequences, FiniteSets, TLC

VARIABLES rows, idSeq, numberSeq, now, issuedIDs, issuedNumbers, last, schema, proc

vars == <<rows, idSeq, numberSeq, now, issuedIDs, issuedNumbers, last, schema, proc>>

\* ------------------------------------------------------------------ bounds
\* values the two SERIAL sequences may hand out
MaxAccounts == 2
\* ticks of the database clock
MaxTime == 2

\* ------------------------------------------------------- program constants
VarcharLen == 50
DefaultBalance == 0
StatusOK == 200
StatusCreated == 201
StatusNoContent == 204
StatusBadRequest == 400

\* a nil error, a nil *Account
Nil == <<>>

\* --------------------------------------------------------- string helpers
\* strings.TrimPrefix
TrimPrefix(s, prefix) ==
    IF Len(s) >= Len(prefix) /\ SubSeq(s, 1, Len(prefix)) = prefix
    THEN SubSeq(s, Len(prefix) + 1, Len(s))
    ELSE s

RECURSIVE TrimLeft(_, _)
TrimLeft(s, c) ==
    IF s # <<>> /\ Head(s) = c THEN TrimLeft(Tail(s), c) ELSE s

RECURSIVE TrimRight(_, _)
TrimRight(s, c) ==
    IF s # <<>> /\ s[Len(s)] = c THEN TrimRight(SubSeq(s, 1, Len(s) - 1), c) ELSE s

\* strings.Trim with a one-character cutset
Trim(s, c) == TrimRight(TrimLeft(s, c), c)

\* strings.Split with a one-character separator: a string without the
\* separator (the empty string included) gives a slice of length 1
RECURSIVE Split(_, _)
Split(s, sep) ==
    IF \E i \in 1..Len(s) : s[i] = sep
    THEN LET i == CHOOSE k \in 1..Len(s) :
                     s[k] = sep /\ \A j \in 1..(k - 1) : s[j] # sep
         IN  <<SubSeq(s, 1, i - 1)>> \o Split(SubSeq(s, i + 1, Len(s)), sep)
    ELSE <<s>>

Digits == <<"0", "1", "2", "3", "4", "5", "6", "7", "8", "9">>

IsDigit(c) == \E d \in 1..10 : Digits[d] = c

DigitVal(c) == (CHOOSE d \in 1..10 : Digits[d] = c) - 1

RECURSIVE ParseDigits(_, _)
ParseDigits(s, acc) ==
    IF s = <<>> THEN acc ELSE ParseDigits(Tail(s), acc * 10 + DigitVal(Head(s)))

\* the error strconv.Atoi returns for a string that is not a number
SyntaxError(s) == <<"strconv.Atoi: parsing \"">> \o s \o <<"\": invalid syntax">>

\* strconv.Atoi: optional sign, then one or more decimal digits
Atoi(s) ==
    LET signed == s # <<>> /\ Head(s) \in {"+", "-"}
        body   == IF signed THEN Tail(s) ELSE s
    IN  IF body = <<>> \/ \E i \in 1..Len(body) : ~IsDigit(body[i])
        THEN [val |-> 0, err |-> SyntaxError(s)]
        ELSE [val |-> IF signed /\ Head(s) = "-"
                      THEN 0 - ParseDigits(body, 0)
                      ELSE ParseDigits(body, 0),
              err |-> Nil]

RECURSIVE FormatNat(_)
FormatNat(n) ==
    IF n < 10 THEN <<Digits[n + 1]>>
    ELSE FormatNat(n \div 10) \o <<Digits[(n % 10) + 1]>>

\* the %d verb of fmt
FormatInt(n) == IF n < 0 THEN <<"-">> \o FormatNat(0 - n) ELSE FormatNat(n)

\* ------------------------------------------------------------ the store
\* sql.ErrNoRows, which Row.Scan returns when the query produced no row
ErrNoRows == <<"sql: no rows in result set">>

\* fmt.Errorf("no account found with id %d", id)
ErrNoAccount(id) == <<"no account found with id ">> \o FormatInt(id)

\* the engine rejecting a string longer than its VARCHAR(50) column
ErrValueTooLong == <<"pq: value too long for type character varying(50)">>

\* failures of the engine or of the connection to it, as the driver reports them
EngineErrors == {<<"pq: the database system is shutting down">>}

\* outcome of handing one statement to the engine: Nil when it is executed
EngineOutcomes == {Nil} \cup EngineErrors

DB(r, i, n) == [rows |-> r, idSeq |-> i, numberSeq |-> n]

\* what a store method leaves behind and returns
StoreRet(db, acc, bal, err) == [db |-> db, acc |-> acc, bal |-> bal, err |-> err]

\* nextval of a SERIAL column's sequence
NextVal(seq) == seq + 1

\* the length check of a VARCHAR(50) column
FitsVarchar(str) == Len(str) <= VarcharLen

RowsWithID(r, id) == {row \in r : row.id = id}

\* CreateAccount as it would be with ids computed from the rows present
CreateAccount_CountRows(db, req, t, eng) ==
    IF eng # Nil THEN StoreRet(db, Nil, 0, eng)
    ELSE IF ~FitsVarchar(req.firstName) \/ ~FitsVarchar(req.lastName)
    THEN StoreRet(db, Nil, 0, ErrValueTooLong)
    ELSE LET row == [id        |-> Cardinality(db.rows) + 1,
                     firstName |-> req.firstName,
                     lastName  |-> req.lastName,
                     number    |-> Cardinality(db.rows) + 1,
                     balance   |-> DefaultBalance,
                     createdAt |-> t,
                     updatedAt |-> t]
         IN  StoreRet(DB({r \in db.rows : r.id # row.id} \cup {row},
                         NextVal(db.idSeq), NextVal(db.numberSeq)),
                      <<row>>, 0, Nil)

\* PostgresStore.CreateAccount: INSERT (first_name, last_name) RETURNING the
\* row; id and number come from their sequences, balance and both
\* timestamps from the column defaults
CreateAccount(db, req, t, eng) ==
    IF eng # Nil THEN StoreRet(db, Nil, 0, eng)
    ELSE IF ~FitsVarchar(req.firstName) \/ ~FitsVarchar(req.lastName)
    THEN StoreRet(db, Nil, 0, ErrValueTooLong)
    ELSE LET row == [id        |-> NextVal(db.idSeq),
                     firstName |-> req.firstName,
                     lastName  |-> req.lastName,
                     number    |-> NextVal(db.numberSeq),
                     balance   |-> DefaultBalance,
                     createdAt |-> t,
                     updatedAt |-> t]
         IN  StoreRet(DB(db.rows \cup {row}, row.id, row.number), <<row>>, 0, Nil)

\* the BEFORE UPDATE trigger: NEW.updated_at = now()
set_updated_at(new, t) == [new EXCEPT !.updatedAt = t]

\* UpdateAccount as it would be if it added the balance to the stored one
UpdateAccount_AddBalance(db, id, req, t, eng) ==
    IF eng # Nil THEN StoreRet(db, Nil, 0, eng)
    ELSE IF RowsWithID(db.rows, id) = {} THEN StoreRet(db, Nil, 0, ErrNoRows)
    ELSE IF ~FitsVarchar(req.firstName) \/ ~FitsVarchar(req.lastName)
    THEN StoreRet(db, Nil, 0, ErrValueTooLong)
    ELSE LET old == CHOOSE row \in db.rows : row.id = id
             new == set_updated_at([old EXCEPT !.firstName = req.firstName,
                                               !.lastName  = req.lastName,
                                               !.balance   = old.balance + req.balance], t)
         IN  StoreRet([db EXCEPT !.rows = (db.rows \ {old}) \cup {new}], <<new>>, 0, Nil)

\* PostgresStore.UpdateAccount: UPDATE ... WHERE id = $4 RETURNING the row;
\* the error of Scan is returned as it is
UpdateAccount(db, id, req, t, eng) ==
    IF eng # Nil THEN StoreRet(db, Nil, 0, eng)
    ELSE IF RowsWithID(db.rows, id) = {} THEN StoreRet(db, Nil, 0, ErrNoRows)
    ELSE IF ~FitsVarchar(req.firstName) \/ ~FitsVarchar(req.lastName)
    THEN StoreRet(db, Nil, 0, ErrValueTooLong)
    ELSE LET old == CHOOSE row \in db.rows : row.id = id
             new == set_updated_at([old EXCEPT !.firstName = req.firstName,
                                               !.lastName  = req.lastName,
                                               !.balance   = req.balance], t)
         IN  StoreRet([db EXCEPT !.rows = (db.rows \ {old}) \cup {new}], <<new>>, 0, Nil)

\* DeleteAccount as it would be if it looked at the number of rows affected
DeleteAccount_RowsAffected(db, id, eng) ==
    IF eng # Nil THEN StoreRet(db, Nil, 0, eng)
    ELSE IF RowsWithID(db.rows, id) = {} THEN StoreRet(db, Nil, 0, ErrNoAccount(id))
    ELSE StoreRet([db EXCEPT !.rows = db.rows \ RowsWithID(db.rows, id)], Nil, 0, Nil)

\* PostgresStore.DeleteAccount: DELETE ... WHERE id = $1, only the error of
\* Exec is looked at
DeleteAccount(db, id, eng) ==
    IF eng # Nil THEN StoreRet(db, Nil, 0, eng)
    ELSE StoreRet([db EXCEPT !.rows = db.rows \ RowsWithID(db.rows, id)], Nil, 0, Nil)

\* PostgresStore.GetAccountByID: sql.ErrNoRows becomes a formatted error
GetAccountByID(db, id, eng) ==
    IF eng # Nil THEN StoreRet(db, Nil, 0, eng)
    ELSE IF RowsWithID(db.rows, id) = {} THEN StoreRet(db, Nil, 0, ErrNoAccount(id))
    ELSE StoreRet(db, <<CHOOSE row \in db.rows : row.id = id>>, 0, Nil)

\* PostgresStore.GetAccountBalanceByID: the balance column alone
GetAccountBalanceByID(db, id, eng) ==
    IF eng # Nil THEN StoreRet(db, Nil, 0, eng)
    ELSE IF RowsWithID(db.rows, id) = {} THEN StoreRet(db, Nil, 0, ErrNoAccount(id))
    ELSE StoreRet(db, Nil, (CHOOSE row \in db.rows : row.id = id).balance, Nil)

\* -------------------------------------------------------------- setup
\* the objects Setup creates in the database: what of them exists
NoSchema == [table |-> FALSE, function |-> FALSE, trigger |-> FALSE]

\* the engine's error for CREATE TRIGGER on a trigger that exists, as the
\* driver words it and createUpdatedAtTrigger spells it
ErrTriggerExists ==
    <<"pq: trigger \"trigger_set_updated_at\" for relation \"accounts\" already exists">>

ErrNoRelation == <<"pq: relation \"accounts\" does not exist">>

ErrNoFunction == <<"pq: function set_updated_at() does not exist">>

\* what one Exec leaves behind and returns
Exec(sch, err) == [schema |-> sch, err |-> err]

\* CREATE TABLE IF NOT EXISTS accounts: no error when the table exists
ExecCreateTable(sch, eng) ==
    IF eng # Nil THEN Exec(sch, eng)
    ELSE Exec([sch EXCEPT !.table = TRUE], Nil)

\* CREATE OR REPLACE FUNCTION set_updated_at(): no error when it exists
ExecCreateFunction(sch, eng) ==
    IF eng # Nil THEN Exec(sch, eng)
    ELSE Exec([sch EXCEPT !.function = TRUE], Nil)

\* CREATE TRIGGER trigger_set_updated_at: an error when it exists
ExecCreateTrigger(sch, eng) ==
    IF eng # Nil THEN Exec(sch, eng)
    ELSE IF ~sch.table THEN Exec(sch, ErrNoRelation)
    ELSE IF ~sch.function THEN Exec(sch, ErrNoFunction)
    ELSE IF sch.trigger THEN Exec(sch, ErrTriggerExists)
    ELSE Exec([sch EXCEPT !.trigger = TRUE], Nil)

\* what Setup and its two parts return: the schema, the error, and the
\* error of every Exec made, in order
SetupRet(sch, err, execs) == [schema |-> sch, err |-> err, execs |-> execs]

\* PostgresStore.createAccountTable
createAccountTable(sch, eng) ==
    LET x == ExecCreateTable(sch, eng)
    IN  SetupRet(x.schema, x.err, <<x.err>>)

\* createUpdatedAtTrigger as it would be without the "already exists" test
createUpdatedAtTrigger_ReturnAll(sch, engFn, engTr) ==
    LET fn == ExecCreateFunction(sch, engFn)
        tr == ExecCreateTrigger(fn.schema, engTr)
    IN  IF fn.err # Nil THEN SetupRet(fn.schema, fn.err, <<fn.err>>)
        ELSE SetupRet(tr.schema, tr.err, <<fn.err, tr.err>>)

\* PostgresStore.createUpdatedAtTrigger: the error of the trigger statement
\* is returned unless its text is the "already exists" one
createUpdatedAtTrigger(sch, engFn, engTr) ==
    LET fn == ExecCreateFunction(sch, engFn)
        tr == ExecCreateTrigger(fn.schema, engTr)
    IN  IF fn.err # Nil THEN SetupRet(fn.schema, fn.err, <<fn.err>>)
        ELSE IF tr.err # Nil /\ tr.err # ErrTriggerExists
        THEN SetupRet(tr.schema, tr.err, <<fn.err, tr.err>>)
        ELSE SetupRet(tr.schema, Nil, <<fn.err, tr.err>>)

\* PostgresStore.Setup
Setup(sch, engTable, engFn, engTr) ==
    LET t == createAccountTable(sch, engTable)
        u == createUpdatedAtTrigger(t.schema, engFn, engTr)
    IN  IF t.err # Nil THEN t
        ELSE SetupRet(u.schema, u.err, t.execs \o u.execs)

\* the process: where main is, whether it called Setup, the error it
\* ended with (log.Fatal) and the errors of the Execs of Setup
Proc(pc, ran, err, execs) == [pc |-> pc, ran |-> ran, err |-> err, execs |-> execs]

Started == Proc("start", FALSE, Nil, <<>>)

\* main from NewPostgresStore on: a failed connection or a failed Setup is
\* fatal, otherwise the server starts
main(sch, conn, engTable, engFn, engTr) ==
    IF conn # Nil THEN [schema |-> sch, proc |-> Proc("exited", FALSE, conn, <<>>)]
    ELSE LET r == Setup(sch, engTable, engFn, engTr)
         IN  [schema |-> r.schema,
              proc   |-> Proc(IF r.err # Nil THEN "exited" ELSE "serving",
                              TRUE, r.err, r.execs)]

\* ------------------------------------------------- the response writer
ContentTypeJSON == "application/json"

\* http.ResponseWriter: header is the map the handler may still change
\* (its Content-Type values), sent is what WriteHeader put on the wire
NewResponseWriter ==
    [header |-> <<>>, wroteHeader |-> FALSE, status |-> 0, sent |-> <<>>, body |-> <<>>]

\* w.Header().Add("Content-Type", v)
HeaderAdd(w, v) == [w EXCEPT !.header = Append(@, v)]

\* w.WriteHeader(status): the first call sends the status and the header map
\* as it is then, later calls are ignored
WriteHeader(w, status) ==
    IF w.wroteHeader THEN w
    ELSE [w EXCEPT !.wroteHeader = TRUE, !.status = status, !.sent = w.header]

\* json.NewEncoder(w).Encode(data): a write before WriteHeader sends 200
Encode(w, data) ==
    [WriteHeader(w, StatusOK) EXCEPT !.body = Append(@, data)]

\* WriteJSON
WriteJSON(w, status, data) ==
    Encode(WriteHeader(HeaderAdd(w, ContentTypeJSON), status), data)

\* APIError{Error: err.Error()}
APIError(err) == [error |-> err]

\* BalanceResponse
BalanceResponse(id, balance) == [id |-> id, balance |-> balance]

\* --------------------------------------------------------------- handlers
NoReq == [firstName |-> "", lastName |-> ""]

\* the one call a handler makes on the store, with what it returned;
\* existed tells whether a row with the id was there when the call was made
StoreCall(op, id, req, eng, db, ret) ==
    [op |-> op, id |-> id, req |-> req, eng |-> eng,
     existed |-> RowsWithID(db.rows, id) # {},
     acc |-> ret.acc, bal |-> ret.bal, err |-> ret.err]

NoCall ==
    [op |-> "none", id |-> 0, req |-> NoReq, eng |-> Nil,
     existed |-> FALSE, acc |-> Nil, bal |-> 0, err |-> Nil]

\* what a handler returns: the writer, its error, the store and its call
Handled(w, err, db, call) == [w |-> w, err |-> err, db |-> db, call |-> call]

ErrInvalidBody == <<"invalid request body">>

\* fmt.Errorf("invalid account ID: %v", err)
ErrInvalidID(err) == <<"invalid account ID: ">> \o err

ErrNotFound == <<"not found">>

\* fmt.Errorf("method %s not allowed on /account", req.Method)
ErrMethodBase(method) == <<"method ", method, " not allowed on /account">>

\* fmt.Errorf("method %s not allowed on /account/{id}", req.Method)
ErrMethodID(method) == <<"method ", method, " not allowed on /account/{id}">>

\* json.NewDecoder(req.Body).Decode(&createReq)
DecodeCreateAccountRequest(body) ==
    [firstName |-> body.firstName, lastName |-> body.lastName]

\* json.NewDecoder(req.Body).Decode(&updateReq)
DecodeUpdateAccountRequest(body) ==
    [firstName |-> body.firstName, lastName |-> body.lastName, balance |-> body.balance]

handleGetAccount(w, req, id, db, t, eng) ==
    LET ret  == GetAccountByID(db, id, eng)
        call == StoreCall("GetAccountByID", id, NoReq, eng, db, ret)
    IN  IF ret.err # Nil THEN Handled(w, ret.err, ret.db, call)
        ELSE Handled(WriteJSON(w, StatusOK, ret.acc[1]), Nil, ret.db, call)

handleCreateAccount(w, req, db, t, eng) ==
    IF ~req.body.valid THEN Handled(w, ErrInvalidBody, db, NoCall)
    ELSE LET createReq == DecodeCreateAccountRequest(req.body)
             ret  == CreateAccount(db, createReq, t, eng)
             call == StoreCall("CreateAccount", 0, createReq, eng, db, ret)
         IN  IF ret.err # Nil THEN Handled(w, ret.err, ret.db, call)
             ELSE Handled(WriteJSON(w, StatusCreated, ret.acc[1]), Nil, ret.db, call)

handleDeleteAccount(w, req, id, db, t, eng) ==
    LET ret  == DeleteAccount(db, id, eng)
        call == StoreCall("DeleteAccount", id, NoReq, eng, db, ret)
    IN  IF ret.err # Nil THEN Handled(w, ret.err, ret.db, call)
        ELSE Handled(WriteHeader(w, StatusNoContent), Nil, ret.db, call)

handleUpdateAccount(w, req, id, db, t, eng) ==
    IF ~req.body.valid THEN Handled(w, ErrInvalidBody, db, NoCall)
    ELSE LET updateReq == DecodeUpdateAccountRequest(req.body)
             ret  == UpdateAccount(db, id, updateReq, t, eng)
             call == StoreCall("UpdateAccount", id, updateReq, eng, db, ret)
         IN  IF ret.err # Nil THEN Handled(w, ret.err, ret.db, call)
             ELSE Handled(WriteJSON(w, StatusOK, ret.acc[1]), Nil, ret.db, call)

handleGetBalance(w, req, id, db, t, eng) ==
    LET ret  == GetAccountBalanceByID(db, id, eng)
        call == StoreCall("GetAccountBalanceByID", id, NoReq, eng, db, ret)
    IN  IF ret.err # Nil THEN Handled(w, ret.err, ret.db, call)
        ELSE Handled(WriteJSON(w, StatusOK, BalanceResponse(id, ret.bal)), Nil, ret.db, call)

\* ------------------------------------------------------------- the router
AccountPrefix == <<"/", "a", "c", "c", "o", "u", "n", "t">>

BalanceAction == <<"b", "a", "l", "a", "n", "c", "e">>

\* the segments handleAccountRouter computes from req.URL.Path
Segments(urlPath) == Split(Trim(TrimPrefix(urlPath, AccountPrefix), "/"), "/")

\* case 0 of the switch: /account
caseBase(w, req, segments, db, t, eng) ==
    IF req.method = "POST" THEN handleCreateAccount(w, req, db, t, eng)
    ELSE Handled(w, ErrMethodBase(req.method), db, NoCall)

\* case 1 as it would be if the method were looked at before the id
caseID_MethodFirst(w, req, segments, db, t, eng) ==
    IF req.method \notin {"GET", "PUT", "DELETE"}
    THEN Handled(w, ErrMethodID(req.method), db, NoCall)
    ELSE LET id == Atoi(segments[1])
         IN  IF id.err # Nil THEN Handled(w, ErrInvalidID(id.err), db, NoCall)
             ELSE CASE req.method = "GET" -> handleGetAccount(w, req, id.val, db, t, eng)
                    [] req.method = "PUT" -> handleUpdateAccount(w, req, id.val, db, t, eng)
                    [] OTHER -> handleDeleteAccount(w, req, id.val, db, t, eng)

\* case 1 of the switch: /account/{id}
caseID(w, req, segments, db, t, eng) ==
    LET id == Atoi(segments[1])
    IN  IF id.err # Nil THEN Handled(w, ErrInvalidID(id.err), db, NoCall)
        ELSE CASE req.method = "GET" -> handleGetAccount(w, req, id.val, db, t, eng)
               [] req.method = "PUT" -> handleUpdateAccount(w, req, id.val, db, t, eng)
               [] req.method = "DELETE" -> handleDeleteAccount(w, req, id.val, db, t, eng)
               [] OTHER -> Handled(w, ErrMethodID(req.method), db, NoCall)

\* case 2 as it would be if the balance action did not look at the method
caseAction_AnyMethod(w, req, segments, db, t, eng) ==
    LET id == Atoi(segments[1])
    IN  IF id.err # Nil THEN Handled(w, ErrInvalidID(id.err), db, NoCall)
        ELSE IF segments[2] = BalanceAction
        THEN handleGetBalance(w, req, id.val, db, t, eng)
        ELSE Handled(w, ErrNotFound, db, NoCall)

\* case 2 of the switch: /account/{id}/{action}, falling out of the switch
\* to the final "not found"
caseAction(w, req, segments, db, t, eng) ==
    LET id == Atoi(segments[1])
    IN  IF id.err # Nil THEN Handled(w, ErrInvalidID(id.err), db, NoCall)
        ELSE IF segments[2] = BalanceAction /\ req.method = "GET"
        THEN handleGetBalance(w, req, id.val, db, t, eng)
        ELSE Handled(w, ErrNotFound, db, NoCall)

handleAccountRouter(w, req, db, t, eng) ==
    LET segments == Segments(req.path)
    IN  CASE Len(segments) = 0 -> caseBase(w, req, segments, db, t, eng)
          [] Len(segments) = 1 -> caseID(w, req, segments, db, t, eng)
          [] Len(segments) = 2 -> caseAction(w, req, segments, db, t, eng)
          [] OTHER -> Handled(w, ErrNotFound, db, NoCall)

\* the wrapper as it would be if it chose the status by the error
makeHTTPHandleFunc_StatusByError(req, db, t, eng) ==
    LET h == handleAccountRouter(NewResponseWriter, req, db, t, eng)
    IN  IF h.err # Nil
        THEN [h EXCEPT !.w = WriteJSON(h.w,
                                 IF h.err = h.call.err THEN 500 ELSE StatusBadRequest,
                                 APIError(h.err))]
        ELSE h

\* makeHTTPHandleFunc(s.handleAccountRouter): every error becomes a 400
makeHTTPHandleFunc(req, db, t, eng) ==
    LET h == handleAccountRouter(NewResponseWriter, req, db, t, eng)
    IN  IF h.err # Nil
        THEN [h EXCEPT !.w = WriteJSON(h.w, StatusBadRequest, APIError(h.err))]
        ELSE h

\* ------------------------------------------------------------- the inputs
\* a name one character longer than a VARCHAR(50) column takes
LongName == "Maximilian-Alexander-Bartholomew-Fitzgerald-Montgom"

CreateRequests ==
    {[firstName |-> "Jane", lastName |-> "Doe"],
     [firstName |-> LongName, lastName |-> "Doe"]}

UpdateRequests ==
    {[firstName |-> "Jane", lastName |-> "Doe", balance |-> 0],
     [firstName |-> "Jane", lastName |-> "Roe", balance |-> -5],
     [firstName |-> LongName, lastName |-> "Doe", balance |-> 500]}

\* ids the store is asked about: every id the sequences can issue and one more
StoreIDs == 1..(MaxAccounts + 1)

Methods == {"GET", "PUT", "DELETE", "POST", "PATCH"}

\* an empty or malformed body, which the decoder rejects
NoBody == [valid |-> FALSE, firstName |-> "", lastName |-> "", balance |-> 0]

JSONBody == [valid |-> TRUE, firstName |-> "Jane", lastName |-> "Roe", balance |-> -5]

\* the bodies sent with a method
Bodies(method) == IF method \in {"POST", "PUT"} THEN {NoBody, JSONBody} ELSE {NoBody}

\* paths the mux hands to the router: /account, and /account/ with a tail
Paths ==
    {AccountPrefix \o tail : tail \in
        {<<>>,
         <<"/">>,
         <<"/", "1">>,
         <<"/", "2">>,
         <<"/", "1", "0">>,
         <<"/", "-", "1">>,
         <<"/", "a", "b", "c">>,
         <<"/", "1", "/">> \o BalanceAction,
         <<"/", "-", "1", "/">> \o BalanceAction,
         <<"/", "a", "b", "c", "/">> \o BalanceAction,
         <<"/", "1", "/", "x">>,
         <<"/", "1", "/">> \o BalanceAction \o <<"/", "x">>}}

\* ------------------------------------------------------------ the machine
\* last: the operation that ran last. via tells whether the store was
\* called directly or a request was served; call is the store call made
\* (NoCall when a request reached no store method); the other fields are
\* the request and the response the client got.
Last(via, call, req, w, herr) ==
    [via |-> via, call |-> call,
     method |-> req.method, path |-> req.path, body |-> req.body,
     status |-> w.status, sent |-> w.sent, out |-> w.body, herr |-> herr]

NoRequest == [method |-> "", path |-> <<>>, body |-> NoBody]

\* nothing is being returned
Idle == Last("idle", NoCall, NoRequest, NewResponseWriter, Nil)

Init ==
    /\ rows = {}
    /\ idSeq = 0
    /\ numberSeq = 0
    /\ now = 0
    /\ issuedIDs = {}
    /\ issuedNumbers = {}
    /\ last = Idle
    /\ schema = NoSchema
    /\ proc = Started

\* the store after an operation, and the record of what CreateAccount issued
Commit(db, call) ==
    /\ db.idSeq <= MaxAccounts
    /\ rows' = db.rows
    /\ idSeq' = db.idSeq
    /\ numberSeq' = db.numberSeq
    /\ issuedIDs' = IF call.op = "CreateAccount" /\ call.err = Nil
                    THEN issuedIDs \cup {call.acc[1].id} ELSE issuedIDs
    /\ issuedNumbers' = IF call.op = "CreateAccount" /\ call.err = Nil
                        THEN issuedNumbers \cup {call.acc[1].number} ELSE issuedNumbers
    /\ UNCHANGED <<now, schema, proc>>

Store == DB(rows, idSeq, numberSeq)

\* the database clock moves on
Tick ==
    /\ now < MaxTime
    /\ now' = now + 1
    /\ UNCHANGED <<rows, idSeq, numberSeq, issuedIDs, issuedNumbers, last, schema, proc>>

\* the caller takes the result, the client the response
Return ==
    /\ last # Idle
    /\ last' = Idle
    /\ UNCHANGED <<rows, idSeq, numberSeq, now, issuedIDs, issuedNumbers, schema, proc>>

\* main runs: it connects, calls Setup and starts the server or exits
RunMain ==
    /\ proc.pc = "start"
    /\ \E conn \in EngineOutcomes, engTable \in EngineOutcomes,
          engFn \in EngineOutcomes, engTr \in EngineOutcomes :
            \E m \in {main(schema, conn, engTable, engFn, engTr)} :
                /\ schema' = m.schema
                /\ proc' = m.proc
    /\ UNCHANGED <<rows, idSeq, numberSeq, now, issuedIDs, issuedNumbers, last>>

\* the process is stopped, or has exited, and is started again on the
\* same database
Restart ==
    /\ proc.pc \in {"serving", "exited"}
    /\ last = Idle
    /\ proc' = Started
    /\ UNCHANGED <<rows, idSeq, numberSeq, now, issuedIDs, issuedNumbers, last, schema>>

\* The five methods of the AccountStore interface, called on the store
\* that main has set up; an operation starts once the result of the one
\* before is taken.
DoCreateAccount ==
    /\ proc.pc = "serving"
    /\ last = Idle
    /\ \E req \in CreateRequests, eng \in EngineOutcomes :
            \E ret \in {CreateAccount(Store, req, now, eng)} :
                \E call \in {StoreCall("CreateAccount", 0, req, eng, Store, ret)} :
                    /\ Commit(ret.db, call)
                    /\ last' = Last("store", call, NoRequest, NewResponseWriter, Nil)

DoUpdateAccount ==
    /\ proc.pc = "serving"
    /\ last = Idle
    /\ \E id \in StoreIDs, req \in UpdateRequests, eng \in EngineOutcomes :
            \E ret \in {UpdateAccount(Store, id, req, now, eng)} :
                \E call \in {StoreCall("UpdateAccount", id, req, eng, Store, ret)} :
                    /\ Commit(ret.db, call)
                    /\ last' = Last("store", call, NoRequest, NewResponseWriter, Nil)

DoDeleteAccount ==
    /\ proc.pc = "serving"
    /\ last = Idle
    /\ \E id \in StoreIDs, eng \in EngineOutcomes :
            \E ret \in {DeleteAccount(Store, id, eng)} :
                \E call \in {StoreCall("DeleteAccount", id, NoReq, eng, Store, ret)} :
                    /\ Commit(ret.db, call)
                    /\ last' = Last("store", call, NoRequest, NewResponseWriter, Nil)

DoGetAccountByID ==
    /\ proc.pc = "serving"
    /\ last = Idle
    /\ \E id \in StoreIDs, eng \in EngineOutcomes :
            \E ret \in {GetAccountByID(Store, id, eng)} :
                \E call \in {StoreCall("GetAccountByID", id, NoReq, eng, Store, ret)} :
                    /\ Commit(ret.db, call)
                    /\ last' = Last("store", call, NoRequest, NewResponseWriter, Nil)

DoGetAccountBalanceByID ==
    /\ proc.pc = "serving"
    /\ last = Idle
    /\ \E id \in StoreIDs, eng \in EngineOutcomes :
            \E ret \in {GetAccountBalanceByID(Store, id, eng)} :
                \E call \in {StoreCall("GetAccountBalanceByID", id, NoReq, eng, Store, ret)} :
                    /\ Commit(ret.db, call)
                    /\ last' = Last("store", call, NoRequest, NewResponseWriter, Nil)

\* one request served by makeHTTPHandleFunc(s.handleAccountRouter)
ServeHTTP ==
    /\ proc.pc = "serving"
    /\ last = Idle
    /\ \E method \in Methods, path \in Paths, eng \in EngineOutcomes :
            \E body \in Bodies(method) :
                \E h \in {makeHTTPHandleFunc([method |-> method, path |-> path, body |-> body],
                                              Store, now, eng)} :
                    /\ Commit(h.db, h.call)
                    /\ last' = Last("http", h.call,
                                    [method |-> method, path |-> path, body |-> body], h.w, h.err)

Next ==
    \/ Tick
    \/ Return
    \/ RunMain
    \/ Restart
    \/ DoCreateAccount
    \/ DoUpdateAccount
    \/ DoDeleteAccount
    \/ DoGetAccountByID
    \/ DoGetAccountBalanceByID
    \/ ServeHTTP

Spec == Init /\ [][Next]_vars

\* ----------------------------------------------------------- the claims
\* a request was served and this is its response
Served == last.via = "http"

\* the step runs the store method op, called directly or by a handler
Ran(op) == last = Idle /\ last'.call.op = op

IsInvalidID(err) == err # Nil /\ err[1] = "invalid account ID: "

SentContentTypes == {last.sent[i] : i \in 1..Len(last.sent)}

StoreReads == {"GetAccountByID", "GetAccountBalanceByID"}

\* C1: a request to /account or /account/ with POST and a well-formed body
\* calls CreateAccount and, when the store succeeds, answers 201 with the
\* created record; with any other method it fails with method-not-allowed
\* and calls no store method.
C1_BasePathCreates ==
    (Served /\ last.path \in {AccountPrefix, AccountPrefix \o <<"/">>}) =>
        /\ (last.method = "POST" /\ last.body.valid) =>
              /\ last.call.op = "CreateAccount"
              /\ last.call.err = Nil =>
                    /\ last.status = StatusCreated
                    /\ last.out = <<last.call.acc[1]>>
        /\ last.method # "POST" =>
              /\ last.herr = ErrMethodBase(last.method)
              /\ last.call = NoCall

\* C2: for an id with no stored row, GetAccountByID, GetAccountBalanceByID
\* and UpdateAccount all fail with the same not-found error, which is not
\* a raw engine error, and the failed call leaves the rows unchanged.
C2_MissingRowIsNotFound ==
    [][(/\ last = Idle
        /\ last'.call.op \in StoreReads \cup {"UpdateAccount"}
        /\ ~last'.call.existed
        /\ last'.call.eng = Nil) =>
            /\ last'.call.err = ErrNoAccount(last'.call.id)
            /\ last'.call.err \notin EngineErrors \cup {ErrNoRows}
            /\ rows' = rows]_vars

\* C3: whenever the routed handler returns an error, the response has
\* status 400 and the body {"error": m} with m the error's message, and an
\* error of the store is the handler's error unchanged.
C3_ErrorsBecome400 ==
    (Served /\ last.herr # Nil) =>
        /\ last.status = StatusBadRequest
        /\ last.out = <<APIError(last.herr)>>
        /\ last.call.err # Nil => last.herr = last.call.err

\* C3 witness: the store failed under a request and the client got the 400
C3_Witness ==
    /\ Served
    /\ last.call.op = "UpdateAccount"
    /\ last.call.err \in EngineErrors
    /\ last.status = StatusBadRequest

\* C4: DeleteAccount that the engine executes returns no error whether or
\* not the row exists (204 over HTTP); afterwards no row has the id,
\* GetAccountByID of it fails with not-found, and the other rows are as
\* they were.
C4_DeleteIdempotent ==
    [][(Ran("DeleteAccount") /\ last'.call.eng = Nil) =>
            /\ last'.call.err = Nil
            /\ last'.via = "http" =>
                  /\ last'.herr = Nil
                  /\ last'.status = StatusNoContent
                  /\ last'.out = <<>>
            /\ rows' = {row \in rows : row.id # last'.call.id}
            /\ GetAccountByID(DB(rows', idSeq', numberSeq'), last'.call.id, Nil).err
                   = ErrNoAccount(last'.call.id)]_vars

\* C4 witness: DELETE of an id that was issued and is already deleted
\* answers 204 while other accounts exist
C4_Witness ==
    /\ Served
    /\ last.call.op = "DeleteAccount"
    /\ ~last.call.existed
    /\ last.call.id \in issuedIDs
    /\ last.status = StatusNoContent
    /\ rows # {}

\* C5: a successful CreateAccount returns a record whose id and number were
\* issued by no earlier CreateAccount, deleted accounts included, with
\* balance 0, createdAt = updatedAt and the requested names.
C5_CreateIssuesFresh ==
    [][(Ran("CreateAccount") /\ last'.call.err = Nil) =>
            \E acc \in {last'.call.acc[1]} :
                /\ acc.id \notin issuedIDs
                /\ acc.number \notin issuedNumbers
                /\ acc.balance = 0
                /\ acc.createdAt = acc.updatedAt
                /\ acc.firstName = last'.call.req.firstName
                /\ acc.lastName = last'.call.req.lastName
                /\ rows' = rows \cup {acc}
                /\ RowsWithID(rows, acc.id) = {}]_vars

\* C5 witness: an account is created after an earlier one was deleted
C5_Witness ==
    /\ last.call.op = "CreateAccount"
    /\ last.call.err = Nil
    /\ \E id \in issuedIDs : id # last.call.acc[1].id /\ RowsWithID(rows, id) = {}

\* C6: a successful UpdateAccount replaces firstName, lastName and balance
\* of the row with the id, keeps its id, number and createdAt and every
\* other row, sets updatedAt to a value >= the old one and >= createdAt,
\* and the two reads that follow return the new values.
C6_UpdateReplaces ==
    [][(Ran("UpdateAccount") /\ last'.call.err = Nil) =>
            \E old \in rows, new \in {last'.call.acc[1]} :
                /\ old.id = last'.call.id
                /\ new.id = old.id
                /\ new.number = old.number
                /\ new.createdAt = old.createdAt
                /\ new.firstName = last'.call.req.firstName
                /\ new.lastName = last'.call.req.lastName
                /\ new.balance = last'.call.req.balance
                /\ new.updatedAt >= old.updatedAt
                /\ new.updatedAt >= new.createdAt
                /\ rows' = (rows \ {old}) \cup {new}
                /\ GetAccountByID(DB(rows', idSeq', numberSeq'), new.id, Nil).acc = <<new>>
                /\ GetAccountBalanceByID(DB(rows', idSeq', numberSeq'), new.id, Nil).bal
                       = last'.call.req.balance]_vars

\* C6 witness: an update to a negative balance, later than the creation,
\* with another account in the store
C6_Witness ==
    /\ last.call.op = "UpdateAccount"
    /\ last.call.err = Nil
    /\ last.call.acc[1].balance < 0
    /\ last.call.acc[1].updatedAt > last.call.acc[1].createdAt
    /\ Cardinality(rows) >= 2

\* C7: a request to a 1-segment path whose segment is not an integer gets
\* a 400 with the invalid-id error whatever its method, and no store
\* method is called.
C7_BadIDBeforeMethod ==
    (/\ Served
     /\ Len(Segments(last.path)) = 1
     /\ Atoi(Segments(last.path)[1]).err # Nil) =>
        /\ last.herr = ErrInvalidID(SyntaxError(Segments(last.path)[1]))
        /\ last.status = StatusBadRequest
        /\ last.out = <<APIError(last.herr)>>
        /\ last.call = NoCall

\* C7 witness: /account/abc with a method the router does not know
C7_Witness ==
    /\ Served
    /\ last.path = AccountPrefix \o <<"/", "a", "b", "c">>
    /\ last.method = "PATCH"
    /\ IsInvalidID(last.herr)

\* C8 as claimed: every 2-segment request other than GET on {id}/balance
\* gets the not-found error and calls no store method, a first segment
\* that is not an integer included.
C8_AllOthersNotFound ==
    (/\ Served
     /\ Len(Segments(last.path)) = 2
     /\ ~(/\ last.method = "GET"
          /\ Segments(last.path)[2] = BalanceAction
          /\ Atoi(Segments(last.path)[1]).err = Nil)) =>
        /\ last.herr = ErrNotFound
        /\ last.call = NoCall

\* C8 as amended: a 2-segment request whose first segment is an integer,
\* other than GET on {id}/balance, gets the not-found error; one whose
\* first segment is not an integer gets the invalid-id error; neither
\* calls a store method.
C8_TwoSegments ==
    (Served /\ Len(Segments(last.path)) = 2) =>
        \E id \in {Atoi(Segments(last.path)[1])} :
            /\ id.err # Nil =>
                  /\ last.herr = ErrInvalidID(id.err)
                  /\ last.call = NoCall
            /\ (/\ id.err = Nil
                /\ ~(last.method = "GET" /\ Segments(last.path)[2] = BalanceAction)) =>
                  /\ last.herr = ErrNotFound
                  /\ last.status = StatusBadRequest
                  /\ last.call = NoCall

\* C8 witness: the balance action with a method other than GET
C8_Witness ==
    /\ Served
    /\ last.path = AccountPrefix \o <<"/", "1", "/">> \o BalanceAction
    /\ last.method = "DELETE"
    /\ last.herr = ErrNotFound

\* C9: an id segment that denotes a negative integer is rejected with the
\* invalid-id error before any store method, so every id a request passes
\* to the store is >= 0.
C9_NonNegativeID ==
    Served =>
        /\ last.call.op \in StoreReads \cup {"UpdateAccount", "DeleteAccount"} =>
              last.call.id >= 0
        /\ (/\ Len(Segments(last.path)) \in {1, 2}
            /\ Atoi(Segments(last.path)[1]).err = Nil
            /\ Atoi(Segments(last.path)[1]).val < 0) =>
              /\ IsInvalidID(last.herr)
              /\ last.call = NoCall

\* C10: every response, the 204 of a successful DELETE included, is sent
\* with the header Content-Type: application/json, set before the status
\* is written.
C10_AlwaysJSON ==
    Served => ContentTypeJSON \in SentContentTypes

\* the Exec errors that make Setup fail: every error but the "already
\* exists" one of the trigger statement, the third Exec
Refused(execs) ==
    \E i \in 1..Len(execs) :
        execs[i] # Nil /\ ~(i = 3 /\ execs[i] = ErrTriggerExists)

SchemaComplete(sch) == sch.table /\ sch.function /\ sch.trigger

\* C11: Setup succeeds on any database, one it has set up before included,
\* when the engine executes its statements: the "already exists" error of
\* the trigger statement is swallowed. Any other error of the table,
\* function or trigger statement makes Setup fail, and after a failed
\* Setup the process exits: the store is called and requests are served
\* only after a Setup that succeeded.
C11_SetupIdempotent ==
    [][/\ (proc.pc = "start" /\ proc'.ran) =>
              /\ (proc'.err = Nil) <=> ~Refused(proc'.execs)
              /\ (\A i \in 1..Len(proc'.execs) : proc'.execs[i] \notin EngineErrors)
                     => proc'.err = Nil
              /\ proc'.err = Nil =>
                    /\ Len(proc'.execs) = 3
                    /\ SchemaComplete(schema')
                    /\ proc'.pc = "serving"
              /\ proc'.err # Nil =>
                    /\ proc'.err = proc'.execs[Len(proc'.execs)]
                    /\ proc'.pc = "exited"
              /\ SchemaComplete(schema) => schema' = schema
       /\ (last = Idle /\ last' # Idle) =>
              /\ proc.pc = "serving"
              /\ proc.ran /\ proc.err = Nil
              /\ SchemaComplete(schema)]_vars

\* C11 witness: Setup ran again on a database that holds accounts, the
\* trigger statement failed with "already exists", and the server serves
C11_Witness ==
    /\ proc.pc = "serving"
    /\ proc.execs = <<Nil, Nil, ErrTriggerExists>>
    /\ rows # {}
    /\ last.via = "http"

====
